---------------------------- MODULE Spec2Model ----------------------------
(***************************************************************************)
(* Model of crawler.py: the breadth-first, depth-batched, thread-pooled    *)
(* same-domain crawler.  One behaviour of Spec is one run of main(): a     *)
(* single call of crawl() on a seed, followed by the report and the output *)
(* file, possibly cut short by a KeyboardInterrupt delivered to the main   *)
(* thread or by an exception nothing catches.  SessionSpec and RerunSpec   *)
(* add a second call of crawl() and a second run; PureSpec applies         *)
(* normalize_url and is_same_domain to arguments of their own.             *)
(*                                                                         *)
(* Text is modelled as a sequence of one-character strings, so that        *)
(* rstrip, endswith and concatenation are computed as Python computes      *)
(* them.  A URL is the tuple of components urlparse() gives for it.        *)
(***************************************************************************)
EXTENDS Integers, Sequences, FiniteSets, TLC

(***************************************************************************)
(* Bounds of the model.                                                    *)
(***************************************************************************)
MaxDepth == 2

MaxWorkers == 2

\* The most trailing slashes on a path given to normalize_url directly.
MaxSlashes == 2

(***************************************************************************)
(* Text helpers: str.rstrip(ch) and str.endswith(suffix).                  *)
(***************************************************************************)
RECURSIVE rstrip(_, _)
rstrip(s, ch) ==
    IF s = <<>> THEN s
    ELSE IF s[Len(s)] = ch THEN rstrip(SubSeq(s, 1, Len(s) - 1), ch)
    ELSE s

endswith(s, suffix) ==
    /\ Len(suffix) <= Len(s)
    /\ SubSeq(s, Len(s) - Len(suffix) + 1, Len(s)) = suffix

(***************************************************************************)
(* fetch_url's failure value: (None, None).  The status None is modelled   *)
(* as 0, which is falsy like None and is no HTTP status.                   *)
(***************************************************************************)
None == 0

(***************************************************************************)
(* URLs: the components urlparse() returns.                                *)
(***************************************************************************)
Url(netloc, path, query, fragment) ==
    [scheme |-> <<"https">>, netloc |-> netloc, path |-> path,
     query |-> query, fragment |-> fragment]

BaseHost == <<"a", ".", "c">>

SubHost == <<"s", ".", "a", ".", "c">>

OtherHost == <<"b", ".", "c">>

NotaHost == <<"n", "a", ".", "c">>

\* https://a.c   (the seed as typed on the command line: empty path)
uSeed == Url(BaseHost, <<>>, <<>>, <<>>)
\* https://a.c/
uRoot == Url(BaseHost, <<"/">>, <<>>, <<>>)
\* https://a.c/x, https://a.c/x/, https://a.c/x?1, https://a.c/x?2
uX == Url(BaseHost, <<"/", "x">>, <<>>, <<>>)
uXs == Url(BaseHost, <<"/", "x", "/">>, <<>>, <<>>)
uXq1 == Url(BaseHost, <<"/", "x">>, <<"1">>, <<>>)
uXq2 == Url(BaseHost, <<"/", "x">>, <<"2">>, <<>>)
\* https://s.a.c/x
uSubX == Url(SubHost, <<"/", "x">>, <<>>, <<>>)
\* https://a.c/y, https://a.c/y#f, https://a.c/z, https://a.c/w
uY == Url(BaseHost, <<"/", "y">>, <<>>, <<>>)
uYf == Url(BaseHost, <<"/", "y">>, <<>>, <<"f">>)
uZ == Url(BaseHost, <<"/", "z">>, <<>>, <<>>)
uW == Url(BaseHost, <<"/", "w">>, <<>>, <<>>)
\* https://b.c/ and https://na.c/ : other hosts
uOther == Url(OtherHost, <<"/">>, <<>>, <<>>)
uNota == Url(NotaHost, <<"/">>, <<>>, <<>>)
\* https://[ : a netloc that opens a bracket and does not close it
uBad == Url(<<"[">>, <<>>, <<>>, <<>>)

\* Variant of normalize_url: the query string left out of the key.
normalize_urlNoQuery(url) ==
    url.scheme \o <<":", "/", "/">> \o url.netloc \o rstrip(url.path, "/")

(***************************************************************************)
(* normalize_url: scheme://netloc + path.rstrip('/') + ("?" + query).      *)
(***************************************************************************)
normalize_url(url) ==
    LET normalized == url.scheme \o <<":", "/", "/">> \o url.netloc
                        \o rstrip(url.path, "/")
    IN  IF url.query # <<>> THEN normalized \o <<"?">> \o url.query
        ELSE normalized

\* Variant of is_same_domain: endswith(base) without the leading dot.
is_same_domainNoDot(url, base_domain) ==
    \/ url.netloc = base_domain
    \/ endswith(url.netloc, base_domain)

(***************************************************************************)
(* is_same_domain: netloc == base or netloc.endswith("." + base).          *)
(***************************************************************************)
is_same_domain(url, base_domain) ==
    \/ url.netloc = base_domain
    \/ endswith(url.netloc, <<".">> \o base_domain)

\* parsed.path or '/'
PathOf(url) == IF url.path = <<>> THEN <<"/">> ELSE url.path

(***************************************************************************)
(* The web the fetcher talks to.  A page is what fetch_url returns for a   *)
(* URL: (content, status), content being None on a RequestException.  The  *)
(* content of a page is abstracted to the absolute URLs extract_links      *)
(* finds in it.                                                            *)
(***************************************************************************)
Page(status, links) == [none |-> FALSE, links |-> links, status |-> status]

Failure == [none |-> TRUE, links |-> {}, status |-> None]

\* Seed linking to /y and to another host; the end-to-end scenario.
SiteE2E ==
    [start_url |-> uSeed,
     pages |-> (uSeed :> Page(200, {uY, uOther})) @@ (uY :> Page(200, {}))
               @@ (uOther :> Page(200, {uNota}))]

\* / links to /x and /y, both of which link to /z; /x also links to its
\* sibling /y, /y to a host that only ends like the seed's, /z links back.
SiteDiamond ==
    [start_url |-> uRoot,
     pages |-> (uRoot :> Page(200, {uX, uY}))
               @@ (uX :> Page(200, {uZ, uY}))
               @@ (uY :> Page(200, {uZ, uRoot, uNota}))
               @@ (uZ :> Page(404, {uX, uW}))
               @@ (uW :> Page(200, {}))
               @@ (uNota :> Page(200, {}))]

\* /x cannot be fetched, /y can and links on, also to a subdomain.
SiteFail ==
    [start_url |-> uRoot,
     pages |-> (uRoot :> Page(200, {uX, uY}))
               @@ (uX :> Failure)
               @@ (uY :> Page(200, {uZ, uYf, uOther, uSubX}))
               @@ (uZ :> Page(200, {uW}))
               @@ (uSubX :> Page(200, {}))
               @@ (uW :> Failure)]

\* Links that share a path: /x, /x/ and /x?1.
SiteVariants ==
    [start_url |-> uSeed,
     pages |-> (uSeed :> Page(200, {uX, uXs, uXq1}))
               @@ (uX :> Page(200, {}))
               @@ (uXs :> Page(200, {}))
               @@ (uXq1 :> Page(200, {}))]

\* A seed page with five in-domain links.
SiteFan5 ==
    [start_url |-> uSeed,
     pages |-> (uSeed :> Page(200, {uX, uXq1, uY, uZ, uW}))
               @@ (uX :> Page(200, {}))
               @@ (uXq1 :> Page(200, {}))
               @@ (uY :> Page(200, {}))
               @@ (uZ :> Page(200, {}))
               @@ (uW :> Page(200, {}))]

\* A page with a good link and an href that urljoin cannot parse.
SiteMalformed ==
    [start_url |-> uRoot,
     pages |-> (uRoot :> Page(200, {uX, uY}))
               @@ (uX :> Page(200, {uZ, uBad}))
               @@ (uY :> Page(200, {}))
               @@ (uZ :> Page(200, {}))]

Sites == {SiteE2E, SiteDiamond, SiteFail, SiteVariants, SiteFan5,
          SiteMalformed}

\* The runs explored: every site with every depth bound and pool width,
\* the five-link seed with depth bound 0 only (its depth-1 batch alone has
\* 5! frontier orders).
Inputs ==
    {in \in [site : Sites, max_depth : 0 .. MaxDepth,
             max_workers : 1 .. MaxWorkers] :
        in.site = SiteFan5 => in.max_depth = 0}

(***************************************************************************)
(* State.  site, max_depth and max_workers are the inputs of the run.      *)
(* visited and found_paths are the module globals; queue, current_batch,   *)
(* current_depth and new_links are crawl()'s locals; futures holds every   *)
(* task submitted to a pool so far, the tasks of the current batch being   *)
(* those after batch_base; pc is the main thread's position.               *)
(* fetches and enq_log are history variables: how often fetch_url was      *)
(* called per URL, and which task each frontier entry came from.           *)
(* error is the exception that ended main, written the file of -o.         *)
(* run and prior serve the specifications that call crawl() or run the     *)
(* program a second time: the number of the invocation and the result of   *)
(* the one before.  p_call and p_ret are the call and the return value of  *)
(* the specification that applies the pure functions directly.             *)
(***************************************************************************)
VARIABLES site, max_depth, max_workers, visited, found_paths, queue,
          current_batch, current_depth, futures, batch_base, new_links,
          yielding, pc, interrupted, reported, exit_code, fetches, enq_log,
          error, written, run, prior, p_call, p_ret

vars == <<site, max_depth, max_workers, visited, found_paths, queue,
          current_batch, current_depth, futures, batch_base, new_links,
          yielding, pc, interrupted, reported, exit_code, fetches, enq_log,
          error, written, run, prior, p_call, p_ret>>

inputs == <<site, max_depth, max_workers>>

globals == <<visited, found_paths>>

coordinator == <<queue, current_batch, current_depth, batch_base, new_links,
                 yielding, pc, interrupted, reported, exit_code, enq_log>>

\* What the steps of crawl() and of its workers never touch.
aux == <<error, written, run, prior, p_call, p_ret>>

UrlUniverse ==
    UNION {DOMAIN s.pages \cup UNION {s.pages[u].links : u \in DOMAIN s.pages}
           : s \in Sites}

\* base_domain = urlparse(start_url).netloc
base_domain == site.start_url.netloc

\* requests.get behind fetch_url: the page, or (None, None) on an error.
fetch_url(url) ==
    IF url \in DOMAIN site.pages THEN site.pages[url] ELSE Failure

\* extract_links(content, url), reached only with content that is not None.
extract_links(content) == content.links

\* urljoin(base_url, url) parses the href: urlsplit raises ValueError
\* ("Invalid IPv6 URL") on a netloc with one square bracket and not the other.
InvalidNetloc(url) ==
    (\E n \in 1 .. Len(url.netloc) : url.netloc[n] = "[")
       # (\E n \in 1 .. Len(url.netloc) : url.netloc[n] = "]")

\* extract_links has no try: the ValueError of one href leaves the function.
ExtractRaises(content) == \E link \in content.links : InvalidNetloc(link)

\* executor.submit(crawl_url, url, base_domain, depth, max_depth): the future
\* and the position of the thread that runs it.
NewFuture(entry) ==
    [url |-> entry[1], depth |-> entry[2], pc |-> "pending", won |-> FALSE,
     resp |-> Failure, result |-> {}, raised |-> FALSE, yielded |-> FALSE]

Tasks == 1 .. Len(futures)

\* No -o file written (yet).
NoFile == [file |-> FALSE, lines |-> <<>>]

\* No earlier invocation.
NoResult == [visited |-> {}, found_paths |-> {}, order |-> <<>>]

\* No direct call of a pure function.
NoCall == [fn |-> "none", u |-> uSeed, v |-> uSeed, base_domain |-> <<>>]

NoReturn == [done |-> FALSE, key_u |-> <<>>, key_v |-> <<>>, same |-> FALSE]

Batch == (batch_base + 1) .. Len(futures)

Running(i) == futures[i].pc \notin {"pending", "done"}

Done(i) == futures[i].pc = "done"

\* The globals as the module creates them (lines 10-12), crawl() at line 104.
Fresh ==
    /\ visited = {}
    /\ found_paths = {}
    /\ queue = << <<site.start_url, 0>> >>
    /\ current_batch = <<>>
    /\ current_depth = 0
    /\ futures = <<>>
    /\ batch_base = 0
    /\ new_links = {}
    /\ yielding = 0
    /\ pc = "loop"
    /\ interrupted = FALSE
    /\ reported = {}
    /\ exit_code = -1
    /\ fetches = [u \in UrlUniverse |-> 0]
    /\ enq_log = {}

Init ==
    /\ \E in \in Inputs :
          /\ site = in.site
          /\ max_depth = in.max_depth
          /\ max_workers = in.max_workers
    /\ Fresh
    /\ error = "none"
    /\ written = NoFile
    /\ run = 1
    /\ prior = NoResult
    /\ p_call = NoCall
    /\ p_ret = NoReturn

(***************************************************************************)
(* The worker: crawl_url run by a pool thread.                             *)
(***************************************************************************)
\* Variant of PoolHasIdleThread: one thread per task, no bound.
PoolUnbounded == TRUE

\* ThreadPoolExecutor(max_workers): a task runs only on one of its threads.
PoolHasIdleThread == Cardinality({i \in Tasks : Running(i)}) < max_workers

\* A pool thread takes the oldest queued task; lines 64-65.
Start(i) ==
    /\ futures[i].pc = "pending"
    /\ \A j \in 1 .. (i - 1) : futures[j].pc # "pending"
    /\ PoolHasIdleThread
    /\ futures' = [futures EXCEPT ![i].pc =
                      IF futures[i].depth > max_depth THEN "done" ELSE "claim"]
    /\ UNCHANGED <<aux, inputs, globals, coordinator, fetches>>

\* Variant of Claim: the membership test without visited.add.
ClaimNoInsert(i) ==
    /\ futures[i].pc = "claim"
    /\ IF normalize_url(futures[i].url) \in visited
       THEN futures' = [futures EXCEPT ![i].pc = "done"]
       ELSE futures' = [futures EXCEPT ![i].pc = "fetch", ![i].won = TRUE]
    /\ UNCHANGED <<aux, inputs, globals, coordinator, fetches>>

\* Lines 67-72: the test-and-insert on visited, under visited_lock.
Claim(i) ==
    /\ futures[i].pc = "claim"
    /\ LET normalized == normalize_url(futures[i].url)
       IN  IF normalized \in visited
           THEN /\ futures' = [futures EXCEPT ![i].pc = "done"]
                /\ UNCHANGED visited
           ELSE /\ visited' = visited \cup {normalized}
                /\ futures' = [futures EXCEPT ![i].pc = "fetch",
                                              ![i].won = TRUE]
    /\ UNCHANGED <<aux, inputs, found_paths, coordinator, fetches>>

\* Lines 74-80: the domain check and the call of fetch_url.
Fetch(i) ==
    /\ futures[i].pc = "fetch"
    /\ LET url == futures[i].url
       IN  IF ~is_same_domain(url, base_domain)
           THEN /\ futures' = [futures EXCEPT ![i].pc = "done"]
                /\ UNCHANGED fetches
           ELSE /\ futures' = [futures EXCEPT ![i].pc = "record",
                                              ![i].resp = fetch_url(url)]
                /\ fetches' = [fetches EXCEPT ![url] = @ + 1]
    /\ UNCHANGED <<aux, inputs, globals, coordinator>>

\* Variant of Record: returning on content None before recording.
RecordOnlySuccess(i) ==
    /\ futures[i].pc = "record"
    /\ found_paths' =
          IF futures[i].resp.none THEN found_paths
          ELSE found_paths \cup {<<PathOf(futures[i].url),
                                   futures[i].resp.status>>}
    /\ futures' = [futures EXCEPT ![i].pc = "extract"]
    /\ UNCHANGED <<aux, inputs, visited, coordinator, fetches>>

\* Lines 82-83: found_paths.add((path, status)), under visited_lock.
Record(i) ==
    /\ futures[i].pc = "record"
    /\ found_paths' = found_paths \cup {<<PathOf(futures[i].url),
                                          futures[i].resp.status>>}
    /\ futures' = [futures EXCEPT ![i].pc = "extract"]
    /\ UNCHANGED <<aux, inputs, visited, coordinator, fetches>>

\* Lines 85-91: no links from a failed fetch, else the extracted links; an
\* exception of extract_links ends the task and is kept in its future.
Extract(i) ==
    /\ futures[i].pc = "extract"
    /\ LET content == futures[i].resp
       IN  futures' = [futures EXCEPT
                         ![i].pc = "done",
                         ![i].raised = ~content.none /\ ExtractRaises(content),
                         ![i].result = IF content.none \/ ExtractRaises(content)
                                       THEN {}
                                       ELSE extract_links(content)]
    /\ UNCHANGED <<aux, inputs, globals, coordinator, fetches>>

Worker == \E i \in Tasks : Start(i) \/ Claim(i) \/ Fetch(i) \/ Record(i) \/ Extract(i)

(***************************************************************************)
(* The coordinator: crawl() and main() on the main thread.                 *)
(***************************************************************************)
\* Variant of LeadingRun: one entry popped per batch.
LeadingRunOne(q, d) == 1

RECURSIVE LeadingRun(_, _)
\* Lines 110-111: how many entries at the head of the queue have depth d.
LeadingRun(q, d) ==
    IF q = <<>> \/ q[1][2] # d THEN 0 ELSE 1 + LeadingRun(Tail(q), d)

\* Variant of DepthExceeded: no depth check before dispatch.
DepthExceededNever(d) == FALSE

\* Variant of DepthExceeded: >= for >.
DepthExceededOffByOne(d) == d >= max_depth

\* Line 113: current_depth > max_depth.
DepthExceeded(d) == d > max_depth

\* Lines 106-114 and 130: pop the next depth level, or leave the loop and
\* return found_paths to main.
PopBatch ==
    /\ pc = "loop"
    /\ IF queue = <<>>
       THEN /\ pc' = "print_results"
            /\ UNCHANGED <<queue, current_batch, current_depth, batch_base>>
       ELSE LET d == queue[1][2]
                n == LeadingRun(queue, d)
            IN  /\ current_depth' = d
                /\ current_batch' = SubSeq(queue, 1, n)
                /\ queue' = SubSeq(queue, n + 1, Len(queue))
                /\ batch_base' = Len(futures)
                /\ pc' = IF DepthExceeded(d) THEN "print_results" ELSE "submit"
    /\ UNCHANGED <<aux, inputs, globals, futures, new_links, yielding, interrupted,
                   reported, exit_code, fetches, enq_log>>

\* Lines 117-120: executor.submit for the next entry of the batch.
Submit ==
    /\ pc = "submit"
    /\ LET k == Len(futures) - batch_base + 1
       IN  /\ futures' = Append(futures, NewFuture(current_batch[k]))
           /\ pc' = IF k = Len(current_batch) THEN "as_completed" ELSE "submit"
    /\ UNCHANGED <<aux, inputs, globals, queue, current_batch, current_depth,
                   batch_base, new_links, yielding, interrupted, reported,
                   exit_code, fetches, enq_log>>

\* Lines 122-123: as_completed yields a finished future; future.result()
\* returns its links or raises the exception its task ended with, which
\* leaves the with block through the executor's __exit__.
Yield(i) ==
    /\ pc = "as_completed"
    /\ i \in Batch
    /\ Done(i)
    /\ ~futures[i].yielded
    /\ futures' = [futures EXCEPT ![i].yielded = TRUE]
    /\ new_links' = futures[i].result
    /\ yielding' = i
    /\ pc' = IF futures[i].raised THEN "error_shutdown"
             ELSE IF futures[i].result = {} THEN "as_completed" ELSE "links"
    /\ UNCHANGED <<aux, inputs, globals, queue, current_batch, current_depth,
                   batch_base, interrupted, reported, exit_code, fetches,
                   enq_log>>

\* Variant of EnqueueLink: marking the link visited when it is enqueued.
EnqueueLinkMarksVisited ==
    /\ pc = "links"
    /\ \E link \in new_links :
          /\ new_links' = new_links \ {link}
          /\ pc' = IF new_links' = {} THEN "as_completed" ELSE "links"
          /\ IF /\ normalize_url(link) \notin visited
                /\ is_same_domain(link, base_domain)
             THEN /\ queue' = Append(queue, <<link, current_depth + 1>>)
                  /\ visited' = visited \cup {normalize_url(link)}
                  /\ enq_log' = enq_log \cup
                        {[url |-> link, depth |-> current_depth + 1,
                          from |-> futures[yielding].url]}
             ELSE UNCHANGED <<queue, enq_log, visited>>
    /\ UNCHANGED <<aux, inputs, found_paths, current_batch, current_depth, futures,
                   batch_base, yielding, interrupted, reported, exit_code,
                   fetches>>

\* Variant of EnqueueLink: the domain filter without the test on visited.
EnqueueLinkNoVisitedTest ==
    /\ pc = "links"
    /\ \E link \in new_links :
          /\ new_links' = new_links \ {link}
          /\ pc' = IF new_links' = {} THEN "as_completed" ELSE "links"
          /\ IF is_same_domain(link, base_domain)
             THEN /\ queue' = Append(queue, <<link, current_depth + 1>>)
                  /\ enq_log' = enq_log \cup
                        {[url |-> link, depth |-> current_depth + 1,
                          from |-> futures[yielding].url]}
             ELSE UNCHANGED <<queue, enq_log>>
    /\ UNCHANGED <<aux, inputs, globals, current_batch, current_depth, futures,
                   batch_base, yielding, interrupted, reported, exit_code,
                   fetches>>

\* Lines 124-128: one link of the result, in the set's iteration order.
EnqueueLink ==
    /\ pc = "links"
    /\ \E link \in new_links :
          /\ new_links' = new_links \ {link}
          /\ pc' = IF new_links' = {} THEN "as_completed" ELSE "links"
          /\ IF /\ normalize_url(link) \notin visited
                /\ is_same_domain(link, base_domain)
             THEN /\ queue' = Append(queue, <<link, current_depth + 1>>)
                  /\ enq_log' = enq_log \cup
                        {[url |-> link, depth |-> current_depth + 1,
                          from |-> futures[yielding].url]}
             ELSE UNCHANGED <<queue, enq_log>>
    /\ UNCHANGED <<aux, inputs, globals, current_batch, current_depth, futures,
                   batch_base, yielding, interrupted, reported, exit_code,
                   fetches>>

\* Variant of ExitWith: leaving after the first result, without waiting.
ExitWithAfterFirst ==
    /\ pc = "as_completed"
    /\ \E i \in Batch : futures[i].yielded
    /\ pc' = "loop"
    /\ UNCHANGED <<aux, inputs, globals, queue, current_batch, current_depth,
                   futures, batch_base, new_links, yielding, interrupted,
                   reported, exit_code, fetches, enq_log>>

\* Lines 116 and 122: as_completed is exhausted once every future of the
\* batch has been yielded, and the with block's exit waits for the pool.
ExitWith ==
    /\ pc = "as_completed"
    /\ \A i \in Batch : futures[i].yielded
    /\ \A i \in Tasks : Done(i)
    /\ pc' = "loop"
    /\ UNCHANGED <<aux, inputs, globals, queue, current_batch, current_depth,
                   futures, batch_base, new_links, yielding, interrupted,
                   reported, exit_code, fetches, enq_log>>

\* print_results: one line per record, marked by its status.
Report(paths) ==
    {[mark |-> IF r[2] # None /\ 200 <= r[2] /\ r[2] < 300 THEN "ok" ELSE "x",
      status |-> r[2], path |-> r[1]] : r \in paths}

\* Lines 171-172: the report of a completed crawl.
PrintResults ==
    /\ pc = "print_results"
    /\ reported' = Report(found_paths)
    /\ pc' = "output"
    /\ UNCHANGED <<aux, inputs, globals, queue, current_batch, current_depth,
                   futures, batch_base, new_links, yielding, interrupted,
                   exit_code, fetches, enq_log>>

\* ord() of the characters paths are made of.
ord(c) ==
    CASE c = "/" -> 47 [] c = "w" -> 119 [] c = "x" -> 120 [] c = "y" -> 121
      [] c = "z" -> 122

RECURSIVE StrLess(_, _)
\* str.__lt__: by code point, a proper prefix first.
StrLess(a, b) ==
    IF b = <<>> THEN FALSE
    ELSE IF a = <<>> THEN TRUE
    ELSE IF a[1] = b[1] THEN StrLess(Tail(a), Tail(b))
    ELSE ord(a[1]) < ord(b[1])

\* tuple.__lt__ on (path, status) records whose statuses can be compared.
TupleLess(r, t) == StrLess(r[1], t[1]) \/ (r[1] = t[1] /\ r[2] < t[2])

\* sorted(paths) compares two records of one path by their statuses: None
\* against an int raises TypeError.
SortRaises(paths) ==
    \E r, t \in paths : r[1] = t[1] /\ r[2] = None /\ t[2] # None

RECURSIVE sorted(_)
\* sorted(paths), for records it can compare.
sorted(paths) ==
    IF paths = {} THEN <<>>
    ELSE LET first == CHOOSE r \in paths :
                         \A t \in paths \ {r} : TupleLess(r, t)
         IN  <<first>> \o sorted(paths \ {first})

\* str(status) inside the f-string: "None", or the digits of the status.
str(status) ==
    LET digit(n) == CASE n = 0 -> "0" [] n = 1 -> "1" [] n = 2 -> "2"
                      [] n = 3 -> "3" [] n = 4 -> "4" [] n = 5 -> "5"
                      [] n = 6 -> "6" [] n = 7 -> "7" [] n = 8 -> "8"
                      [] n = 9 -> "9"
    IN  IF status = None THEN <<"N", "o", "n", "e">>
        ELSE <<digit(status \div 100), digit((status \div 10) % 10),
               digit(status % 10)>>

\* f"{status}\t{path}\n"
Line(r) == str(r[2]) \o <<"\t">> \o r[1] \o <<"\n">>

\* Line 174 without -o: main returns.
NoOutput ==
    /\ pc = "output"
    /\ exit_code' = 0
    /\ pc' = "exited"
    /\ UNCHANGED <<aux, inputs, globals, queue, current_batch, current_depth,
                   futures, batch_base, new_links, yielding, interrupted,
                   reported, fetches, enq_log>>

\* Lines 174-178 with -o: open the file, sort the records, write a line
\* for each.  A TypeError of sorted() is not caught: traceback, status 1.
WriteOutput ==
    /\ pc = "output"
    /\ IF SortRaises(found_paths)
       THEN /\ written' = [file |-> TRUE, lines |-> <<>>]
            /\ error' = "TypeError"
            /\ exit_code' = 1
       ELSE /\ written' = [file |-> TRUE,
                           lines |-> [k \in 1 .. Cardinality(found_paths) |->
                                        Line(sorted(found_paths)[k])]]
            /\ exit_code' = 0
            /\ UNCHANGED error
    /\ pc' = "exited"
    /\ UNCHANGED <<run, prior, p_call, p_ret, inputs, globals, queue,
                   current_batch, current_depth, futures, batch_base,
                   new_links, yielding, interrupted, reported, fetches,
                   enq_log>>

\* A KeyboardInterrupt raised in the main thread inside main's try block.
\* Inside the with block it first runs the executor's __exit__; raised while
\* __exit__ is already waiting (for a ValueError), it ends that wait.
Interrupt ==
    /\ ~interrupted
    /\ pc \in {"loop", "submit", "as_completed", "links", "print_results",
              "output", "error_shutdown"}
    /\ interrupted' = TRUE
    /\ pc' = IF pc \in {"submit", "as_completed", "links"} THEN "shutdown"
             ELSE "handler"
    /\ UNCHANGED <<aux, inputs, globals, queue, current_batch, current_depth,
                   futures, batch_base, new_links, yielding, reported,
                   exit_code, fetches, enq_log>>

\* Variant of ShutdownComplete: shutdown(wait=False).
ShutdownNoWait == TRUE

\* ThreadPoolExecutor.__exit__: shutdown(wait=True) returns once every
\* submitted task has run.
ShutdownComplete == \A i \in Tasks : Done(i)

\* Line 116, on an exception: leave the with block.
Shutdown ==
    /\ pc = "shutdown"
    /\ ShutdownComplete
    /\ pc' = "handler"
    /\ UNCHANGED <<aux, inputs, globals, queue, current_batch, current_depth,
                   futures, batch_base, new_links, yielding, interrupted,
                   reported, exit_code, fetches, enq_log>>

\* Line 116, on the ValueError of future.result(): the with block is left
\* once the pool has shut down, and main has no handler for the exception.
ErrorExit ==
    /\ pc = "error_shutdown"
    /\ ShutdownComplete
    /\ error' = "ValueError"
    /\ exit_code' = 1
    /\ pc' = "exited"
    /\ UNCHANGED <<written, run, prior, p_call, p_ret, inputs, globals, queue,
                   current_batch, current_depth, futures, batch_base,
                   new_links, yielding, interrupted, reported, fetches,
                   enq_log>>

\* Lines 180-183: report found_paths and sys.exit(0).
Handler ==
    /\ pc = "handler"
    /\ reported' = Report(found_paths)
    /\ exit_code' = 0
    /\ pc' = "exited"
    /\ UNCHANGED <<aux, inputs, globals, queue, current_batch, current_depth,
                   futures, batch_base, new_links, yielding, interrupted,
                   fetches, enq_log>>

Coordinator ==
    \/ PopBatch
    \/ Submit
    \/ \E i \in Tasks : Yield(i)
    \/ EnqueueLink
    \/ ExitWith
    \/ ErrorExit
    \/ PrintResults
    \/ NoOutput
    \/ WriteOutput

Next == Worker \/ Coordinator \/ Interrupt \/ Shutdown \/ Handler

Spec == Init /\ [][Next]_vars

\* Threads are scheduled and every fetch returns (it has a timeout).
FairSpec == Spec /\ WF_vars(Worker \/ Coordinator \/ Shutdown \/ Handler)

(***************************************************************************)
(* normalize_url and is_same_domain called directly, as pure functions, on *)
(* URLs made of every combination of a few components.                     *)
(***************************************************************************)
ParseResult(scheme, netloc, path, query, fragment) ==
    [scheme |-> scheme, netloc |-> netloc, path |-> path, query |-> query,
     fragment |-> fragment]

Slashes(n) == [k \in 1 .. n |-> "/"]

\* "", "/x" followed by up to MaxSlashes slashes, and "/y".
PurePaths ==
    {stem \o Slashes(n) : stem \in {<<>>, <<"/", "x">>}, n \in 0 .. MaxSlashes}
       \cup {<<"/", "y">>}

PureUrls ==
    {ParseResult(s, h, p, q, f) :
        s \in {<<"https">>, <<"http">>}, h \in {BaseHost, OtherHost},
        p \in PurePaths, q \in {<<>>, <<"1">>}, f \in {<<>>, <<"f">>}}

\* a.c:8 : a netloc with a port
PortHost == BaseHost \o <<":", "8">>

PureHosts == {BaseHost, SubHost, OtherHost, NotaHost, PortHost}

PureCalls ==
    {[fn |-> "normalize_url", u |-> u, v |-> v, base_domain |-> <<>>] :
        u \in PureUrls, v \in PureUrls}
       \cup {[fn |-> "is_same_domain", u |-> Url(h, p, <<>>, <<>>),
               v |-> Url(h, p, <<>>, <<>>), base_domain |-> b] :
                h \in PureHosts, p \in {<<>>, <<"/", "x">>}, b \in PureHosts}

PureInit ==
    /\ site = SiteE2E
    /\ max_depth = 0
    /\ max_workers = 1
    /\ Fresh
    /\ error = "none"
    /\ written = NoFile
    /\ run = 1
    /\ prior = NoResult
    /\ p_call \in PureCalls
    /\ p_ret = NoReturn

\* normalize_url(u) and normalize_url(v).
CallNormalize ==
    /\ p_call.fn = "normalize_url"
    /\ ~p_ret.done
    /\ p_ret' = [done |-> TRUE, key_u |-> normalize_url(p_call.u),
                 key_v |-> normalize_url(p_call.v), same |-> FALSE]
    /\ UNCHANGED <<inputs, globals, coordinator, futures, fetches, error,
                   written, run, prior, p_call>>

\* is_same_domain(u, base_domain).
CallSameDomain ==
    /\ p_call.fn = "is_same_domain"
    /\ ~p_ret.done
    /\ p_ret' = [done |-> TRUE, key_u |-> <<>>, key_v |-> <<>>,
                 same |-> is_same_domain(p_call.u, p_call.base_domain)]
    /\ UNCHANGED <<inputs, globals, coordinator, futures, fetches, error,
                   written, run, prior, p_call>>

PureNext == CallNormalize \/ CallSameDomain

PureSpec == PureInit /\ [][PureNext]_vars

(***************************************************************************)
(* crawl() called a second time in the same process, as a test or another  *)
(* caller of the module would: the locals of crawl() are new, the module   *)
(* globals visited and found_paths are what the first call left.           *)
(***************************************************************************)
CrawlAgain ==
    /\ run = 1
    /\ pc = "print_results"
    /\ ~interrupted
    /\ run' = 2
    /\ prior' = [visited |-> visited, found_paths |-> found_paths,
                 order |-> [i \in 1 .. Len(futures) |-> futures[i].url]]
    /\ queue' = << <<site.start_url, 0>> >>
    /\ current_batch' = <<>>
    /\ current_depth' = 0
    /\ futures' = <<>>
    /\ batch_base' = 0
    /\ new_links' = {}
    /\ yielding' = 0
    /\ pc' = "loop"
    /\ fetches' = [u \in UrlUniverse |-> 0]
    /\ enq_log' = {}
    /\ UNCHANGED <<inputs, globals, interrupted, reported, exit_code, error,
                   written, p_call, p_ret>>

SessionSpec == Init /\ [][Next \/ CrawlAgain]_vars

(***************************************************************************)
(* The program run a second time, in a new process, on the same inputs and *)
(* the same site; prior keeps what the first run ended with, and the order *)
(* in which it submitted its tasks.                                        *)
(***************************************************************************)
RunAgain ==
    /\ run = 1
    /\ pc = "exited"
    /\ ~interrupted
    /\ error # "ValueError"
    /\ \A i \in 1 .. Len(futures) : futures[i].pc = "done"
    /\ run' = 2
    /\ prior' = [visited |-> visited, found_paths |-> found_paths,
                 order |-> [i \in 1 .. Len(futures) |-> futures[i].url]]
    /\ visited' = {}
    /\ found_paths' = {}
    /\ queue' = << <<site.start_url, 0>> >>
    /\ current_batch' = <<>>
    /\ current_depth' = 0
    /\ futures' = <<>>
    /\ batch_base' = 0
    /\ new_links' = {}
    /\ yielding' = 0
    /\ pc' = "loop"
    /\ reported' = {}
    /\ exit_code' = -1
    /\ fetches' = [u \in UrlUniverse |-> 0]
    /\ enq_log' = {}
    /\ error' = "none"
    /\ written' = NoFile
    /\ UNCHANGED <<inputs, interrupted, p_call, p_ret>>

RerunSpec == Init /\ [][Next \/ RunAgain]_vars

(***************************************************************************)
(* Notions the properties are stated in.                                   *)
(***************************************************************************)
\* The normalized key of every URL of the model, computed once.
KeyTable == [u \in UrlUniverse |-> normalize_url(u)]

KeyOf(i) == KeyTable[futures[i].url]

\* The task has been through the test-and-insert of lines 69-72.
Claimed(i) == futures[i].pc \notin {"pending", "claim"}

\* crawl() has returned to main and main has finished, uninterrupted.
CompletedNormally == pc = "exited" /\ ~interrupted /\ error # "ValueError"

\* The host is the seed's host or a subdomain of it.
HostOfSeed(url) ==
    \/ url.netloc = site.start_url.netloc
    \/ \E n \in 1 .. Len(url.netloc) :
          /\ url.netloc[n] = "."
          /\ SubSeq(url.netloc, n + 1, Len(url.netloc)) = site.start_url.netloc

\* The pairs of distinct URLs that normalize to the same key.
SameKeyPairs ==
    UNION {{<<u, v>> : v \in {w \in UrlUniverse :
                                w # u /\ KeyTable[w] = KeyTable[u]}}
           : u \in UrlUniverse}

(***************************************************************************)
(* C1: for every normalized key, once a worker dispatched for that key has *)
(* been through the test-and-insert, exactly one worker of that key has    *)
(* won it, and fetch_url has been called at most once over all the URLs    *)
(* that normalize to the key.                                              *)
(***************************************************************************)
C1_AtMostOnceFetch ==
    /\ LET won(i) == {j \in Tasks : futures[j].won /\ KeyOf(j) = KeyOf(i)}
       IN  \A i \in Tasks :
              /\ Cardinality(won(i)) <= 1
              /\ Claimed(i) => Cardinality(won(i)) = 1
    /\ \A u \in UrlUniverse : fetches[u] <= 1
    /\ \A p \in SameKeyPairs : fetches[p[1]] + fetches[p[2]] <= 1

\* /x and /y, both of depth 1, linked to /z: two workers of depth 2 for /z
\* have finished, one won, one lost, and /z was fetched once.
C1_Witness ==
    \E i, j \in Tasks :
       /\ i # j
       /\ futures[i].url = uZ /\ futures[j].url = uZ
       /\ futures[i].depth = 2 /\ futures[j].depth = 2
       /\ Done(i) /\ Done(j)
       /\ futures[i].won /\ ~futures[j].won
       /\ fetches[uZ] = 1

(***************************************************************************)
(* C2: depth-level barrier.  Whenever a task of a deeper level exists,     *)
(* every task of a shallower level has completed; and the coordinator is   *)
(* at the head of its loop only when no task is pending or running.        *)
(***************************************************************************)
C2_DepthBarrier ==
    /\ \A i, j \in Tasks : futures[i].depth < futures[j].depth => Done(i)
    /\ pc = "loop" => \A i \in Tasks : Done(i)

\* A depth-2 worker is running; two depth-1 workers ran before it.
C2_Witness ==
    /\ \E j \in Tasks : futures[j].depth = 2 /\ Running(j)
    /\ Cardinality({i \in Tasks : futures[i].depth = 1 /\ futures[i].won}) >= 2

(***************************************************************************)
(* C3: depth bound.  No worker is ever dispatched for an entry deeper than *)
(* max_depth; a batch deeper than max_depth ends the crawl and none of its *)
(* entries is submitted; with max_depth = 0 only the seed is fetched and a *)
(* completed crawl has exactly one record.                                 *)
(***************************************************************************)
C3_DepthBound ==
    /\ \A i \in Tasks : futures[i].depth <= max_depth
    /\ pc \in {"submit", "as_completed", "links"} => current_depth <= max_depth
    /\ current_depth > max_depth =>
          /\ pc \in {"print_results", "output", "handler", "exited"}
          /\ Len(futures) = batch_base
    /\ max_depth = 0 =>
          /\ \A u \in UrlUniverse : fetches[u] > 0 => u = site.start_url
          /\ CompletedNormally =>
                /\ fetches[site.start_url] = 1
                /\ Cardinality(found_paths) = 1

\* max_depth = 0, a seed page with five in-domain links: the crawl ended
\* discarding the five entries of depth 1, with one record.
C3_Witness ==
    /\ CompletedNormally
    /\ max_depth = 0
    /\ Cardinality({l \in site.pages[site.start_url].links :
                       HostOfSeed(l)}) = 5
    /\ Len(current_batch) = 5
    /\ current_depth = 1
    /\ found_paths = {<<PathOf(site.start_url), 200>>}

(***************************************************************************)
(* The URLs with a link chain of at most k in-domain links from the seed,  *)
(* each page of the chain but the last fetched with content.               *)
(***************************************************************************)
RECURSIVE ReachWithin(_)
ReachWithin(k) ==
    IF k = 0 THEN {site.start_url}
    ELSE LET r == ReachWithin(k - 1)
             got == {u \in r : fetches[u] > 0 /\ ~fetch_url(u).none}
         IN  r \cup {v \in UNION {fetch_url(u).links : u \in got} :
                        HostOfSeed(v)}

(***************************************************************************)
(* C4 as stated: after a completed crawl every URL within max_depth links  *)
(* of the seed has its key in visited and a record with its own path.      *)
(***************************************************************************)
C4_RecordForOwnPath ==
    CompletedNormally =>
       \A u \in ReachWithin(max_depth) :
          /\ normalize_url(u) \in visited
          /\ \E r \in found_paths : r[1] = PathOf(u)

(***************************************************************************)
(* C4, amended: after a completed crawl every URL within max_depth links   *)
(* of the seed has its key in visited, and the ledger has the record of    *)
(* the URL that was fetched for that key (its path is the URL's own path   *)
(* up to trailing slashes).                                                *)
(***************************************************************************)
C4_Completeness ==
    CompletedNormally =>
       \A u \in ReachWithin(max_depth) :
          /\ normalize_url(u) \in visited
          /\ \E v \in UrlUniverse :
                /\ fetches[v] > 0
                /\ KeyTable[v] = KeyTable[u]
                /\ rstrip(PathOf(v), "/") = rstrip(PathOf(u), "/")
                /\ <<PathOf(v), fetch_url(v).status>> \in found_paths

\* /x and /x/ are both one link from the seed; /x/ won the key and was
\* fetched, /x was not, and the crawl completed.
C4_Witness ==
    /\ CompletedNormally
    /\ max_depth >= 1
    /\ {uX, uXs} \subseteq ReachWithin(max_depth)
    /\ fetches[uXs] = 1
    /\ fetches[uX] = 0

(***************************************************************************)
(* C5: no URL on a host that is neither the seed's host nor a subdomain of *)
(* it is ever queued, dispatched or fetched, and every record is that of a *)
(* dispatched in-domain URL; the end-to-end scenario ends with exactly the *)
(* records (/, 200) and (/y, 200).                                         *)
(***************************************************************************)
C5_NeverOutOfDomain ==
    /\ \A u \in UrlUniverse : ~HostOfSeed(u) => fetches[u] = 0
    /\ \A i \in Tasks : HostOfSeed(futures[i].url)
    /\ \A k \in 1 .. Len(queue) : HostOfSeed(queue[k][1])
    /\ \A r \in found_paths :
          \E i \in Tasks :
             /\ HostOfSeed(futures[i].url)
             /\ futures[i].pc \in {"extract", "done"}
             /\ r = <<PathOf(futures[i].url), futures[i].resp.status>>
    /\ (site = SiteE2E /\ max_depth = 1 /\ CompletedNormally) =>
          found_paths = {<< <<"/">>, 200 >>, << <<"/", "y">>, 200 >>}

\* The end-to-end scenario has completed: the seed linked to /y and to
\* another host, which was not fetched.
C5_Witness ==
    /\ site = SiteE2E
    /\ max_depth = 1
    /\ CompletedNormally
    /\ uOther \in site.pages[site.start_url].links
    /\ fetches[uOther] = 0
    /\ fetches[uY] = 1
    /\ Cardinality(found_paths) = 2

\* The task passed the fetch: its URL was fetched and is or will be recorded.
Fetched(i) == futures[i].pc \in {"record", "extract"} \/ (Done(i) /\ futures[i].won)

\* Link l of yielded task i has been through lines 125-128.
Processed(i, l) ==
    /\ futures[i].yielded
    /\ ~(yielding = i /\ l \in new_links)

(***************************************************************************)
(* C6: a failed fetch is recorded with the absent status, returns no links *)
(* and contributes no frontier entry; a fetch with content is recorded     *)
(* with its status, and each of its in-domain links is, once processed,    *)
(* visited already or enqueued one level deeper; a crawl that completes    *)
(* has run every task, exits with 0 unless an output file was asked for,   *)
(* has dispatched every enqueued entry within the bound at its depth, and  *)
(* every in-domain link of a page fetched above the bound has been claimed *)
(* no deeper than one level down; the only exception that ends a crawl is  *)
(* one raised by link extraction, never a failed fetch.                    *)
(***************************************************************************)
C6_PartialFailure ==
    /\ \A i \in Tasks :
          (Fetched(i) /\ futures[i].pc # "record") =>
             <<PathOf(futures[i].url), fetch_url(futures[i].url).status>>
                \in found_paths
    /\ \A i \in Tasks :
          (Done(i) /\ fetch_url(futures[i].url).none) => futures[i].result = {}
    /\ \A e \in enq_log :
          /\ ~fetch_url(e.from).none
          /\ \E i \in Tasks : /\ futures[i].url = e.from
                              /\ futures[i].depth + 1 = e.depth
                              /\ e.url \in futures[i].result
    /\ \A i \in Tasks :
          \A l \in futures[i].result :
             (Processed(i, l) /\ HostOfSeed(l)) =>
                \/ KeyTable[l] \in visited
                \/ [url |-> l, depth |-> futures[i].depth + 1,
                    from |-> futures[i].url] \in enq_log
    /\ (pc = "exited" /\ error = "ValueError") =>
          \E i \in Tasks : futures[i].raised /\ ~fetch_url(futures[i].url).none
    /\ CompletedNormally =>
          /\ ~written.file => exit_code = 0
          /\ \A i \in Tasks : Done(i) /\ futures[i].yielded
          /\ \A e \in enq_log :
                e.depth <= max_depth =>
                   \E j \in Tasks : /\ futures[j].url = e.url
                                    /\ futures[j].depth = e.depth
          /\ \A i \in Tasks :
                (futures[i].won /\ futures[i].depth < max_depth) =>
                   \A l \in futures[i].result :
                      HostOfSeed(l) =>
                         \E j \in Tasks : /\ KeyOf(j) = KeyTable[l]
                                          /\ futures[j].won
                                          /\ futures[j].depth
                                                <= futures[i].depth + 1

\* /x and /y are both of depth 1; the fetch of /x failed and that of /y
\* did not; the crawl completed with both records, no entry from /x, and
\* /y's link /z dispatched at depth 2.
C6_Witness ==
    /\ CompletedNormally
    /\ site = SiteFail
    /\ max_depth = 2
    /\ << <<"/", "x">>, None >> \in found_paths
    /\ << <<"/", "y">>, 200 >> \in found_paths
    /\ \A e \in enq_log : e.from # uX
    /\ \E j \in Tasks : /\ futures[j].url = uZ
                        /\ futures[j].depth = 2
                        /\ futures[j].won

C8_BoundedPool ==
    /\ Cardinality({i \in Tasks : Running(i)}) <= max_workers
    /\ Cardinality({i \in Tasks : futures[i].won /\ ~Done(i)}) <= max_workers

\* A batch wider than the pool: max_workers fetches in flight, a task waits.
C8_Witness ==
    /\ Len(current_batch) > max_workers
    /\ Cardinality({i \in Tasks : futures[i].won /\ ~Done(i)}) = max_workers
    /\ \E i \in Batch : futures[i].pc = "pending"

(***************************************************************************)
(* C9 as stated: once the interrupt has been delivered, no task that had   *)
(* not started starts, and no task is submitted.                           *)
(***************************************************************************)
C9_InterruptStopsDispatch ==
    [][interrupted =>
          /\ Len(futures') = Len(futures)
          /\ \A i \in Tasks :
                futures[i].pc = "pending" => futures'[i].pc = "pending"]_vars

(***************************************************************************)
(* C10: an interrupted run always reaches the report and exits; the        *)
(* handler reports the ledger as it is at that moment; an interrupted run  *)
(* that has exited has exit code 0, and every reported record is the path  *)
(* and status of a fetched URL within max_depth links of the seed; unless  *)
(* the interrupt cut short the wait that follows an extraction error, no   *)
(* task is left pending or running and the report is the final ledger.     *)
(***************************************************************************)
C10_GracefulInterrupt ==
    /\ [][(pc = "handler" /\ pc' = "exited") =>
            reported' = Report(found_paths)]_vars
    /\ []((pc = "exited" /\ interrupted) =>
            /\ exit_code = 0
            /\ error = "none"
            /\ (\A i \in Tasks : ~(futures[i].raised /\ futures[i].yielded)) =>
                  /\ \A i \in Tasks : Done(i)
                  /\ reported = Report(found_paths)
            /\ \A line \in reported :
                  \E u \in ReachWithin(max_depth) :
                     /\ fetches[u] > 0
                     /\ line.path = PathOf(u)
                     /\ line.status = fetch_url(u).status)
    /\ [](interrupted => <>(pc = "exited"))

\* Interrupted before every result of the batch was collected: the run has
\* exited with code 0 and a report of at least two records.
C10_Witness ==
    /\ interrupted
    /\ pc = "exited"
    /\ exit_code = 0
    /\ Cardinality(reported) >= 2
    /\ \E i \in Tasks : ~futures[i].yielded

\* One path is the other followed by slashes only.
SameButTrailingSlashes(p, q) ==
    LET short == IF Len(p) <= Len(q) THEN p ELSE q
        long == IF Len(p) <= Len(q) THEN q ELSE p
    IN  /\ SubSeq(long, 1, Len(short)) = short
        /\ \A k \in (Len(short) + 1) .. Len(long) : long[k] = "/"

\* The paths are equal, or one is the other followed by one slash.
SameButOneTrailingSlash(p, q) ==
    p = q \/ p = q \o <<"/">> \/ q = p \o <<"/">>

C12_SameDomain ==
    (p_call.fn = "is_same_domain" /\ p_ret.done) =>
       LET netloc == p_call.u.netloc
           base == p_call.base_domain
       IN  /\ p_ret.same <=>
                 \/ netloc = base
                 \/ \E n \in 1 .. Len(netloc) :
                       /\ netloc[n] = "."
                       /\ SubSeq(netloc, n + 1, Len(netloc)) = base
           /\ (base = BaseHost /\ netloc \in {BaseHost, SubHost}) => p_ret.same
           /\ (base = BaseHost /\ netloc \in {OtherHost, NotaHost})
                 => ~p_ret.same

\* is_same_domain("https://na.c/x", "a.c") has returned False.
C12_Witness ==
    /\ p_call.fn = "is_same_domain"
    /\ p_ret.done
    /\ p_call.u.netloc = NotaHost
    /\ p_call.base_domain = BaseHost
    /\ ~p_ret.same

(***************************************************************************)
(* C13 as stated: a crawl invocation is not affected by an earlier one in  *)
(* the same process.  When the second call of crawl() returns, its seed    *)
(* has been fetched in this call, and every record it returns is the path  *)
(* and status of a URL one of its own workers fetched.                     *)
(***************************************************************************)
C13_SessionIsolation ==
    (run = 2 /\ pc = "print_results") =>
       /\ fetches[site.start_url] = 1
       /\ \A r \in found_paths :
             \E i \in Tasks :
                /\ futures[i].won
                /\ r = <<PathOf(futures[i].url),
                         fetch_url(futures[i].url).status>>

(***************************************************************************)
(* C14 as stated: for every normalized key at most one frontier entry is   *)
(* ever enqueued, and no worker that goes through the test-and-insert      *)
(* loses it.                                                               *)
(***************************************************************************)
C14_EnqueuedOnce ==
    /\ \A e1, e2 \in enq_log : KeyTable[e1.url] = KeyTable[e2.url] => e1 = e2
    /\ \A i \in Tasks : Claimed(i) => futures[i].won

(***************************************************************************)
(* C14: an entry is enqueued only for a key that is not in visited at that *)
(* moment, one level below the current batch; keys are not unique in the   *)
(* frontier, and of the workers dispatched for one key at most one wins.   *)
(***************************************************************************)
C14_EnqueuedWhileUnclaimed ==
    /\ [][Len(queue') > Len(queue) =>
            /\ KeyTable[queue'[Len(queue')][1]] \notin visited
            /\ queue'[Len(queue')][2] = current_depth + 1]_vars
    /\ [](\A i, j \in Tasks :
             (futures[i].won /\ futures[j].won /\ KeyOf(i) = KeyOf(j)) => i = j)

\* /z was enqueued twice, from /x and from /y; /y, a page of depth 1, was
\* enqueued again at depth 2 as a link of its sibling /x, and the worker
\* of that entry lost the claim.
C14_Witness ==
    /\ [url |-> uZ, depth |-> 2, from |-> uX] \in enq_log
    /\ [url |-> uZ, depth |-> 2, from |-> uY] \in enq_log
    /\ [url |-> uY, depth |-> 2, from |-> uX] \in enq_log
    /\ \E i \in Tasks : /\ futures[i].url = uY
                        /\ futures[i].depth = 2
                        /\ Done(i)
                        /\ ~futures[i].won

C16_Termination ==
    /\ <>(pc = "exited")
    /\ [][(pc = "loop" /\ pc' = "submit") =>
            /\ current_depth' = IF futures = <<>> THEN 0 ELSE current_depth + 1
            /\ current_depth' <= max_depth]_vars
    /\ [](pc = "print_results" =>
            /\ queue = <<>>
            /\ \A i \in Tasks : Done(i)
            /\ Cardinality({futures[i].depth : i \in Tasks}) <= max_depth + 1)

\* The site with the cycle /, /y, / : the run has ended after the levels
\* 0, 1 and 2, on the batch of depth 3.
C16_Witness ==
    /\ CompletedNormally
    /\ site = SiteDiamond
    /\ max_depth = 2
    /\ current_depth = 3
    /\ {futures[i].depth : i \in Tasks} = {0, 1, 2}
    /\ fetches[uRoot] = 1

(***************************************************************************)
(* C17 as stated: an href that cannot be parsed is dropped where the link  *)
(* is resolved.  No worker ends with an exception, no run ends with one,   *)
(* and a worker that fetched a page returns every link of the page that    *)
(* can be parsed.                                                          *)
(***************************************************************************)
C17_MalformedDiscarded ==
    /\ \A i \in Tasks : ~futures[i].raised
    /\ error # "ValueError"
    /\ \A i \in Tasks :
          (Done(i) /\ futures[i].won /\ ~futures[i].resp.none
             /\ HostOfSeed(futures[i].url)) =>
             futures[i].result
                = {l \in futures[i].resp.links : ~InvalidNetloc(l)}

(***************************************************************************)
(* C18: every entry of the frontier has the same depth, one more than the  *)
(* batch being processed (0 before the first batch); a pop takes the whole *)
(* frontier as the batch, all of one depth; and the depths of successive   *)
(* batches are 0, 1, 2, ...                                                *)
(***************************************************************************)
C18_WholeLevel ==
    /\ [](\A k \in 1 .. Len(queue) :
             queue[k][2] = IF current_batch = <<>> THEN 0
                           ELSE current_depth + 1)
    /\ [][(pc = "loop" /\ pc' \in {"submit", "print_results"}
             /\ queue # <<>>) =>
            /\ current_batch' = queue
            /\ queue' = <<>>
            /\ \A k \in 1 .. Len(current_batch') :
                  current_batch'[k][2] = current_depth'
            /\ current_depth' = IF current_batch = <<>> THEN 0
                                ELSE current_depth + 1]_vars

\* The batch of depth 2 has just been popped: three entries, the whole
\* frontier, after the batches of depth 0 and 1.
C18_Witness ==
    /\ pc = "submit"
    /\ Len(futures) = batch_base
    /\ current_depth = 2
    /\ Len(current_batch) = 3
    /\ queue = <<>>
    /\ {futures[i].depth : i \in Tasks} = {0, 1}

(***************************************************************************)
(* C19 as stated: with -o, after a crawl that completed, the file gets one *)
(* line per record, in ascending order of (path, status), and the run does *)
(* not fail, also when two records share a path and one has no status.     *)
(***************************************************************************)
C19_OutputWritten ==
    written.file =>
       /\ error = "none"
       /\ exit_code = 0
       /\ Len(written.lines) = Cardinality(found_paths)
       /\ {written.lines[k] : k \in 1 .. Len(written.lines)}
             = {Line(r) : r \in found_paths}

\* A record without its trailing slashes.
Stem(r) == <<rstrip(r[1], "/"), r[2]>>

(***************************************************************************)
(* C20 as stated: a second run on the same inputs and the same site ends   *)
(* with the visited set and the records of the first.                      *)
(***************************************************************************)
C20_Deterministic ==
    (run = 2 /\ CompletedNormally) =>
       /\ visited = prior.visited
       /\ found_paths = prior.found_paths

(***************************************************************************)
(* C20: a second run on the same inputs and the same site, which answers   *)
(* the URLs of one key alike, ends with the visited set of the first and   *)
(* with the records of the first up to the trailing slashes of the paths.  *)
(***************************************************************************)
C20_DeterministicUpToSlashes ==
    (run = 2 /\ CompletedNormally) =>
       /\ visited = prior.visited
       /\ {Stem(r) : r \in found_paths} = {Stem(r) : r \in prior.found_paths}

\* /x and /x/ in one batch: both runs submitted the same tasks in the
\* same order; the first run recorded /x/ and the second did not, with the
\* same visited set.
C20_Witness ==
    /\ run = 2
    /\ CompletedNormally
    /\ site = SiteVariants
    /\ [i \in 1 .. Len(futures) |-> futures[i].url] = prior.order
    /\ visited = prior.visited
    /\ << <<"/", "x", "/">>, 200 >> \in prior.found_paths
    /\ << <<"/", "x", "/">>, 200 >> \notin found_paths

=============================================================================
